---------------------------- MODULE Spec2Model ----------------------------
(***************************************************************************)
(* Model of the approve-then-swap orchestration of BitsoAA:                *)
(*   - src/app/api/smartaccount/route.ts : the GET and POST handlers       *)
(*   - src/app/swap/page.tsx             : pollForAllowance, handleSwap    *)
(*                                                                         *)
(* One handler invocation or one handleSwap run is in progress at a time;  *)
(* every await of the code is a step.  The chain (user operations and the  *)
(* ERC-20 allowance of the smart account towards MockSwap) is the          *)
(* environment: it mines pending user operations at any moment, and other  *)
(* transactions may change the allowance.  Amounts are base units          *)
(* (decimals = 0).                                                         *)
(***************************************************************************)
EXTENDS Integers, Sequences, FiniteSets, TLC

\* ------------------------------------------------------------ bounds
MaxAmount == 2
MaxCalls == 3

\* ------------------------------------------------- program constants
maxTries == 20
SettleDelayMs == 30000

\* ---------------------------------------------------------- addresses
TokenA == "0x6c6D"
MOCK_SWAP_ADDRESS == "0x7184"
AccountAddr == "0xACC0"
NoAddress == "null"

VARIABLES
    env,            \* process.env: which of PRIVATE_KEY, ZERODEV_RPC are set
    allowance,      \* chain: allowance(TokenA, account, MOCK_SWAP_ADDRESS)
    userOps,        \* chain: user operations of the request/run observed
    req,            \* endpoint: the request being handled
    pc,             \* endpoint: position of the handler
    events,         \* endpoint: external calls attempted by this request
    responses,      \* endpoint: responses returned by this request
    cpc,            \* client: position of handleSwap
    fromAmount,     \* client: the amount field handleSwap was invoked with
    accountAddress, \* client: the smart-account address of the hook
    isSwapping,     \* client: useState(false)
    swapStatus,     \* client: useState(null)
    amountBigInt,   \* client: parseUnits(fromAmount, decimals)
    posted,         \* client: fetches issued by this run, in order
    i,              \* client: loop variable of pollForAllowance
    pollReads,      \* client: allowance reads issued by pollForAllowance
    pollBelow,      \* client: reads that returned less than expectedAmount
    pollLast,       \* client: value of the last successful read (-1: none)
    pollResult,     \* client: "none" | "true" | "false" | "throw"
    approveRes,     \* client: response of the approve round trip
    swapRes         \* client: response of the swap round trip

chainVars == <<allowance, userOps>>
epVars == <<req, pc, events, responses>>
clVars == <<cpc, fromAmount, accountAddress, isSwapping, swapStatus,
            amountBigInt, posted, i, pollReads, pollBelow, pollLast,
            pollResult, approveRes, swapRes>>
vars == <<env, allowance, userOps, req, pc, events, responses, cpc,
          fromAmount, accountAddress, isSwapping, swapStatus, amountBigInt,
          posted, i, pollReads, pollBelow, pollLast, pollResult, approveRes,
          swapRes>>

\* ------------------------------------------------------------- calls
ApproveCall(a) == [to |-> TokenA, fn |-> "approve", amount |-> a]
SwapCall(a) == [to |-> MOCK_SWAP_ADDRESS, fn |-> "swapAToB", amount |-> a]
CallSet == {ApproveCall(a) : a \in 1..MaxAmount}
               \cup {SwapCall(a) : a \in 1..MaxAmount}

SeqsUpTo(S, n) == UNION {[1..k -> S] : k \in 0..n}

\* request bodies: unparseable JSON, JSON without a calls list, or
\* {calls: [...]}
BadJson == [kind |-> "badjson", calls |-> <<>>]
NoCalls == [kind |-> "nocalls", calls |-> <<>>]
CallsBody(cs) == [kind |-> "calls", calls |-> cs]
Bodies == {BadJson, NoCalls} \cup {CallsBody(cs) : cs \in SeqsUpTo(CallSet, MaxCalls)}

NoReq == [method |-> "none", body |-> BadJson, origin |-> "none"]

\* ---------------------------------------------------------- responses
NoRes == [status |-> 0, key |-> "none", hash |-> 0, error |-> ""]
JsonHash(h) == [status |-> 200, key |-> "userOpHash", hash |-> h, error |-> ""]
JsonAddress == [status |-> 200, key |-> "address", hash |-> 0, error |-> ""]
JsonError(msg, st) == [status |-> st, key |-> "error", hash |-> 0, error |-> msg]
ResOk(r) == r.status >= 200 /\ r.status <= 299

\* an external call attempted by the handler, with its outcome
Ev(kind, ok, what, val) == [kind |-> kind, ok |-> ok, what |-> what, val |-> val]


\* ------------------------------------------------------------- chain
\* the readContract of allowance(owner = account, spender) on `token`:
\* the values the call can resolve to; Rejected when the call throws
Rejected == -1
ReadOutcomes(token, spender) ==
    {Rejected} \cup
    (IF token = TokenA
       THEN {IF spender = MOCK_SWAP_ADDRESS THEN allowance ELSE 0}
       ELSE {})

\* the effect of executing a user operation's calls on the allowance;
\* Rejected when a call reverts (a swap pulling more than the allowance)
RECURSIVE Exec(_, _)
Exec(calls, a) ==
    IF calls = <<>> THEN a
    ELSE LET c == Head(calls) IN
         IF c.fn = "approve" THEN Exec(Tail(calls), c.amount)
         ELSE IF a >= c.amount THEN Exec(Tail(calls), a - c.amount)
         ELSE Rejected

UserOp(calls) == [calls |-> calls, status |-> "pending"]
Mined(h) == h \in 1..Len(userOps) /\ userOps[h].status # "pending"

\* the bundler includes a pending user operation in a block
Mine(h) ==
    /\ h \in 1..Len(userOps)
    /\ userOps[h].status = "pending"
    /\ LET a == Exec(userOps[h].calls, allowance) IN
       \E ok \in BOOLEAN :
         IF ok /\ a # Rejected
           THEN /\ allowance' = a
                /\ userOps' = [userOps EXCEPT ![h].status = "mined"]
           ELSE /\ allowance' = allowance
                /\ userOps' = [userOps EXCEPT ![h].status = "reverted"]
    /\ UNCHANGED <<env, epVars, clVars>>

\* another transaction of the account (an earlier request's operation, a
\* transfer by the spender) changes the allowance
ChainOther(v) ==
    /\ v \in 0..MaxAmount
    /\ v # allowance
    /\ allowance' = v
    /\ UNCHANGED <<env, userOps, epVars, clVars>>

\* ---------------------------------------------------------- endpoint
\* (variant: only the signing key is tested)
EnvMissingKeyOnly == ~env.privateKey
EnvMissing == ~env.privateKey \/ ~env.ZERODEV_RPC
\* (variant: the sequential path is taken for two or more calls)
IsTwoCallsOrMore(calls) == Len(calls) >= 2
IsTwoCalls(calls) == Len(calls) = 2
\* (variant: the zero test never matches an unsigned value)
AllowanceIsNegative(a) == a < 0
AllowanceIsZero(a) == a = 0

MissingEnvResponse == JsonError("Missing env vars", 500)
AllowanceNotUpdated == JsonError("Allowance not updated", 400)
ApproveCatch == JsonError("Approve failed", 500)
SwapCatch == JsonError("Swap failed", 500)
SingleCatch == JsonError("message", 500)
OuterCatch == JsonError("message", 500)

\* return NextResponse.json(...)
Return(r) ==
    /\ responses' = Append(responses, r)
    /\ pc' = "responded"

Log(e) == events' = Append(events, e)

\* the handler is invoked: the code before the first await
Receive(method, body, origin) ==
    /\ req' = [method |-> method, body |-> body, origin |-> origin]
    /\ events' = <<>>
    /\ IF EnvMissing
         THEN /\ responses' = <<MissingEnvResponse>>
              /\ pc' = "responded"
         ELSE /\ responses' = <<>>
              /\ pc' = IF method = "GET" THEN "get_account" ELSE "post_json"

\* GET: signerToEcdsaValidator, createKernelAccount
GetAccount ==
    /\ pc = "get_account"
    /\ \E ok \in BOOLEAN :
         /\ Log(Ev("account", ok, "-", 0))
         /\ Return(IF ok THEN JsonAddress ELSE OuterCatch)
    /\ UNCHANGED <<env, chainVars, req, clVars>>

\* (variant: req.json() is awaited outside the try block)
PostJsonUncaught ==
    /\ pc = "post_json"
    /\ IF req.body.kind = "badjson"
         THEN pc' = "crashed"
         ELSE pc' = "post_account"
    /\ UNCHANGED <<env, chainVars, req, events, responses, clVars>>

\* POST: const { calls } = await req.json()
PostJson ==
    /\ pc = "post_json"
    /\ IF req.body.kind = "badjson"
         THEN Return(OuterCatch)
         ELSE /\ pc' = "post_account"
              /\ UNCHANGED responses
    /\ UNCHANGED <<env, chainVars, req, events, clVars>>

\* POST: signerToEcdsaValidator, createKernelAccount, then the branch on
\* calls.length (calls undefined: a TypeError for the outer catch)
PostAccount ==
    /\ pc = "post_account"
    /\ \E ok \in BOOLEAN :
         /\ Log(Ev("account", ok, "-", 0))
         /\ IF ~ok \/ req.body.kind = "nocalls"
              THEN Return(OuterCatch)
              ELSE /\ pc' = IF IsTwoCalls(req.body.calls)
                              THEN "approve_send" ELSE "single_send"
                   /\ UNCHANGED responses
    /\ UNCHANGED <<env, chainVars, req, clVars>>

\* (variant: the approve catch block logs and falls through to the swap)
ApproveSendFallThrough ==
    /\ pc = "approve_send"
    /\ \E ok \in BOOLEAN :
         IF ok
           THEN /\ userOps' = Append(userOps, UserOp(<<req.body.calls[1]>>))
                /\ Log(Ev("submit", TRUE, "call0", Len(userOps) + 1))
                /\ pc' = "approve_receipt"
           ELSE /\ Log(Ev("submit", FALSE, "call0", 0))
                /\ pc' = "swap_send"
                /\ UNCHANGED userOps
    /\ UNCHANGED <<env, allowance, req, responses, clVars>>

\* POST, two calls: encodeCalls([calls[0]]), sendUserOperation
ApproveSend ==
    /\ pc = "approve_send"
    /\ \E ok \in BOOLEAN :
         IF ok
           THEN /\ userOps' = Append(userOps, UserOp(<<req.body.calls[1]>>))
                /\ Log(Ev("submit", TRUE, "call0", Len(userOps) + 1))
                /\ pc' = "approve_receipt"
                /\ UNCHANGED responses
           ELSE /\ Log(Ev("submit", FALSE, "call0", 0))
                /\ Return(ApproveCatch)
                /\ UNCHANGED userOps
    /\ UNCHANGED <<env, allowance, req, clVars>>

ApproveUserOpHash == Len(userOps)

\* (variant: the allowance is read right after the receipt, no settle delay)
ApproveReceiptNoSettle ==
    /\ pc = "approve_receipt"
    /\ \/ /\ Mined(ApproveUserOpHash)
          /\ Log(Ev("receipt", TRUE, "call0", ApproveUserOpHash))
          /\ pc' = "allowance_read"
          /\ UNCHANGED responses
       \/ /\ Log(Ev("receipt", FALSE, "call0", ApproveUserOpHash))
          /\ Return(ApproveCatch)
    /\ UNCHANGED <<env, chainVars, req, clVars>>

\* POST, two calls: waitForUserOperationReceipt({hash: approveUserOpHash})
ApproveReceipt ==
    /\ pc = "approve_receipt"
    /\ \/ /\ Mined(ApproveUserOpHash)
          /\ Log(Ev("receipt", TRUE, "call0", ApproveUserOpHash))
          /\ pc' = "settle"
          /\ UNCHANGED responses
       \/ /\ Log(Ev("receipt", FALSE, "call0", ApproveUserOpHash))
          /\ Return(ApproveCatch)
    /\ UNCHANGED <<env, chainVars, req, clVars>>

\* POST, two calls: await new Promise(resolve => setTimeout(resolve, 30000))
SettleDelay ==
    /\ pc = "settle"
    /\ Log(Ev("settle", TRUE, "-", SettleDelayMs))
    /\ pc' = "allowance_read"
    /\ UNCHANGED <<env, chainVars, req, responses, clVars>>

\* POST, two calls: readContract allowance(account, calls[1].to) on
\* calls[0].to, and the zero test
AllowanceRead ==
    /\ pc = "allowance_read"
    /\ \E v \in ReadOutcomes(req.body.calls[1].to, req.body.calls[2].to) :
         IF v = Rejected
           THEN /\ Log(Ev("read", FALSE, "-", 0))
                /\ Return(ApproveCatch)
           ELSE /\ Log(Ev("read", TRUE, "-", v))
                /\ IF AllowanceIsZero(v)
                     THEN Return(AllowanceNotUpdated)
                     ELSE /\ pc' = "swap_send"
                          /\ UNCHANGED responses
    /\ UNCHANGED <<env, chainVars, req, clVars>>

\* (variant: a rejected swap submission is attempted again)
SwapSendRetry ==
    /\ pc = "swap_send"
    /\ \E ok \in BOOLEAN :
         IF ok
           THEN /\ userOps' = Append(userOps, UserOp(<<req.body.calls[2]>>))
                /\ Log(Ev("submit", TRUE, "call1", Len(userOps) + 1))
                /\ Return(JsonHash(Len(userOps) + 1))
           ELSE /\ Len(events) < 8
                /\ Log(Ev("submit", FALSE, "call1", 0))
                /\ UNCHANGED <<userOps, pc, responses>>
    /\ UNCHANGED <<env, allowance, req, clVars>>

\* POST, two calls: encodeCalls([calls[1]]), sendUserOperation, return
SwapSend ==
    /\ pc = "swap_send"
    /\ \E ok \in BOOLEAN :
         IF ok
           THEN /\ userOps' = Append(userOps, UserOp(<<req.body.calls[2]>>))
                /\ Log(Ev("submit", TRUE, "call1", Len(userOps) + 1))
                /\ Return(JsonHash(Len(userOps) + 1))
           ELSE /\ Log(Ev("submit", FALSE, "call1", 0))
                /\ Return(SwapCatch)
                /\ UNCHANGED userOps
    /\ UNCHANGED <<env, allowance, req, clVars>>

\* POST, any other count: sendUserOperation({calls: calls.map(...)}), return
SingleSend ==
    /\ pc = "single_send"
    /\ \E ok \in BOOLEAN :
         IF ok
           THEN /\ userOps' = Append(userOps, UserOp(req.body.calls))
                /\ Log(Ev("submit", TRUE, "all", Len(userOps) + 1))
                /\ Return(JsonHash(Len(userOps) + 1))
           ELSE /\ Log(Ev("submit", FALSE, "all", 0))
                /\ Return(SingleCatch)
                /\ UNCHANGED userOps
    /\ UNCHANGED <<env, allowance, req, clVars>>

\* a caller other than the swap page issues a request
ClientIdle == cpc \in {"idle", "done"}
EndpointFree == pc = "idle"

DirectPost(body) ==
    /\ ClientIdle /\ EndpointFree
    /\ Receive("POST", body, "direct")
    /\ userOps' = <<>>
    /\ UNCHANGED <<env, allowance, clVars>>

DirectGet ==
    /\ ClientIdle /\ EndpointFree
    /\ Receive("GET", BadJson, "direct")
    /\ userOps' = <<>>
    /\ UNCHANGED <<env, allowance, clVars>>

\* the response reaches the caller: the invocation is over, and its user
\* operations are no longer followed (their later effect is ChainOther)
DirectDone ==
    /\ pc = "responded"
    /\ req.origin = "direct"
    /\ pc' = "idle"
    /\ req' = NoReq
    /\ events' = <<>>
    /\ responses' = <<>>
    /\ userOps' = <<>>
    /\ UNCHANGED <<env, allowance, clVars>>

\* ------------------------------------------------------------ client
\* what the amount field can hold: empty, not a number, or a number
FromAmounts == {"", "abc"} \cup {ToString(n) : n \in 0..MaxAmount}

\* parseUnits(fromAmount, decimals) with decimals = 0: the number the
\* string denotes; Rejected when it throws
ParseUnits(s) ==
    IF \E n \in 0..MaxAmount : ToString(n) = s
      THEN CHOOSE n \in 0..MaxAmount : ToString(n) = s
      ELSE Rejected

\* (variant: the poll wants more than the expected amount)
PollHitStrict(a, expectedAmount) == a > expectedAmount
PollHit(a, expectedAmount) == a >= expectedAmount

\* (variant: setIsSwapping(false) is missing from the failure path)
CatchNoFinally ==
    /\ swapStatus' = "error"
    /\ isSwapping' = isSwapping
    /\ cpc' = "done"

\* catch (err) { setSwapStatus("error") } finally { setIsSwapping(false) }
CatchFinally ==
    /\ swapStatus' = "error"
    /\ isSwapping' = FALSE
    /\ cpc' = "done"

\* handleSwap is invoked (the button is disabled while isSwapping): the
\* guard, setIsSwapping(true), setSwapStatus("pending"), steps 1-3
\* (parseUnits, encode approve, fetch POST {calls: [approve]}) up to the
\* first await; the fetch reaches the endpoint or rejects
HandleSwap(fa, addr) ==
    /\ ClientIdle /\ EndpointFree
    /\ ~isSwapping
    /\ fromAmount' = fa
    /\ accountAddress' = addr
    /\ IF fa = "" \/ addr = NoAddress
         THEN UNCHANGED <<cpc, isSwapping, swapStatus, amountBigInt, posted,
                          i, pollReads, pollBelow, pollLast, pollResult,
                          approveRes, swapRes, userOps, epVars>>
         ELSE /\ i' = 0
              /\ pollReads' = 0
              /\ pollBelow' = 0
              /\ pollLast' = Rejected
              /\ pollResult' = "none"
              /\ approveRes' = NoRes
              /\ swapRes' = NoRes
              /\ userOps' = <<>>
              /\ LET amt == ParseUnits(fa) IN
                 IF amt = Rejected
                   THEN /\ CatchFinally
                        /\ amountBigInt' = 0
                        /\ posted' = <<>>
                        /\ UNCHANGED epVars
                   ELSE /\ amountBigInt' = amt
                        /\ posted' = <<ApproveCall(amt)>>
                        /\ \/ /\ Receive("POST", CallsBody(<<ApproveCall(amt)>>),
                                         "client")
                              /\ cpc' = "approve_wait"
                              /\ isSwapping' = TRUE
                              /\ swapStatus' = "pending"
                           \/ /\ CatchFinally
                              /\ UNCHANGED epVars
    /\ UNCHANGED <<env, allowance>>

\* (variant: the approve response is not tested for ok)
ApproveResponseNoOkTest ==
    /\ cpc = "approve_wait"
    /\ pc = "responded"
    /\ req.origin = "client"
    /\ approveRes' = responses[Len(responses)]
    /\ pc' = "idle"
    /\ cpc' = "poll"
    /\ UNCHANGED <<env, chainVars, req, events, responses, fromAmount,
                   accountAddress, isSwapping, swapStatus, amountBigInt,
                   posted, i, pollReads, pollBelow, pollLast, pollResult,
                   swapRes>>

\* approveRes.json(); if (!approveRes.ok) throw
ApproveResponse ==
    /\ cpc = "approve_wait"
    /\ pc = "responded"
    /\ req.origin = "client"
    /\ approveRes' = responses[Len(responses)]
    /\ pc' = "idle"
    /\ IF ResOk(approveRes')
         THEN /\ cpc' = "poll"
              /\ UNCHANGED <<isSwapping, swapStatus>>
         ELSE CatchFinally
    /\ UNCHANGED <<env, chainVars, req, events, responses, fromAmount,
                   accountAddress, amountBigInt, posted, i, pollReads,
                   pollBelow, pollLast, pollResult, swapRes>>

\* pollForAllowance: one iteration's readContract and test; handleSwap
\* throws when the call throws
PollRead ==
    /\ cpc = "poll"
    /\ i < maxTries
    /\ pollReads' = pollReads + 1
    /\ \E v \in ReadOutcomes(TokenA, MOCK_SWAP_ADDRESS) :
         IF v = Rejected
           THEN /\ pollResult' = "throw"
                /\ CatchFinally
                /\ UNCHANGED <<pollBelow, pollLast>>
           ELSE /\ pollLast' = v
                /\ pollBelow' = IF v < amountBigInt THEN pollBelow + 1
                                                    ELSE pollBelow
                /\ IF PollHit(v, amountBigInt)
                     THEN /\ pollResult' = "true"
                          /\ cpc' = "swap_fetch"
                     ELSE /\ cpc' = "poll_wait"
                          /\ UNCHANGED pollResult
                /\ UNCHANGED <<isSwapping, swapStatus>>
    /\ UNCHANGED <<env, chainVars, epVars, fromAmount, accountAddress,
                   amountBigInt, posted, i, approveRes, swapRes>>

\* (variant: the result of pollForAllowance is not tested by handleSwap)
PollWaitNoAbort ==
    /\ cpc = "poll_wait"
    /\ i' = i + 1
    /\ IF i + 1 < maxTries
         THEN /\ cpc' = "poll"
              /\ UNCHANGED pollResult
         ELSE /\ pollResult' = "false"
              /\ cpc' = "swap_fetch"
    /\ UNCHANGED <<env, chainVars, epVars, fromAmount, accountAddress,
                   isSwapping, swapStatus, amountBigInt, posted, pollReads,
                   pollBelow, pollLast, approveRes, swapRes>>

\* pollForAllowance: the 2 second wait, i++, and the loop test; return
\* false makes handleSwap throw "Allowance did not update in time."
PollWait ==
    /\ cpc = "poll_wait"
    /\ i' = i + 1
    /\ IF i + 1 < maxTries
         THEN /\ cpc' = "poll"
              /\ UNCHANGED <<pollResult, isSwapping, swapStatus>>
         ELSE /\ pollResult' = "false"
              /\ CatchFinally
    /\ UNCHANGED <<env, chainVars, epVars, fromAmount, accountAddress,
                   amountBigInt, posted, pollReads, pollBelow, pollLast,
                   approveRes, swapRes>>

\* steps 5-6: encode swapAToB(amountBigInt), fetch POST {calls: [swap]}
SwapFetch ==
    /\ cpc = "swap_fetch"
    /\ EndpointFree
    /\ posted' = Append(posted, SwapCall(amountBigInt))
    /\ \/ /\ Receive("POST", CallsBody(<<SwapCall(amountBigInt)>>), "client")
          /\ cpc' = "swap_wait"
          /\ UNCHANGED <<isSwapping, swapStatus>>
       \/ /\ CatchFinally
          /\ UNCHANGED epVars
    /\ UNCHANGED <<env, chainVars, fromAmount, accountAddress, amountBigInt,
                   i, pollReads, pollBelow, pollLast, pollResult, approveRes,
                   swapRes>>

\* swapRes.json(); if (!swapRes.ok) throw; setSwapStatus("success"); finally
SwapResponse ==
    /\ cpc = "swap_wait"
    /\ pc = "responded"
    /\ req.origin = "client"
    /\ swapRes' = responses[Len(responses)]
    /\ pc' = "idle"
    /\ IF ResOk(swapRes')
         THEN /\ swapStatus' = "success"
              /\ isSwapping' = FALSE
              /\ cpc' = "done"
         ELSE CatchFinally
    /\ UNCHANGED <<env, chainVars, req, events, responses, fromAmount,
                   accountAddress, amountBigInt, posted, i, pollReads,
                   pollBelow, pollLast, pollResult, approveRes>>

\* ----------------------------------------------------- specification
Init ==
    /\ env \in [privateKey : BOOLEAN, ZERODEV_RPC : BOOLEAN]
    /\ allowance \in 0..MaxAmount
    /\ userOps = <<>>
    /\ req = NoReq
    /\ pc = "idle"
    /\ events = <<>>
    /\ responses = <<>>
    /\ cpc = "idle"
    /\ fromAmount = ""
    /\ accountAddress = NoAddress
    /\ isSwapping = FALSE
    /\ swapStatus = "null"
    /\ amountBigInt = 0
    /\ posted = <<>>
    /\ i = 0
    /\ pollReads = 0
    /\ pollBelow = 0
    /\ pollLast = Rejected
    /\ pollResult = "none"
    /\ approveRes = NoRes
    /\ swapRes = NoRes

\* the endpoint serving callers other than the swap page
Next ==
    \/ \E body \in Bodies : DirectPost(body)
    \/ DirectGet
    \/ DirectDone
    \/ GetAccount
    \/ PostJson
    \/ PostAccount
    \/ ApproveSend
    \/ ApproveReceipt
    \/ SettleDelay
    \/ AllowanceRead
    \/ SwapSend
    \/ SingleSend
    \/ \E h \in 1..Len(userOps) : Mine(h)
    \/ \E v \in 0..MaxAmount : ChainOther(v)

Spec == Init /\ [][Next]_vars

\* the swap page and the endpoint serving it
ClientNext ==
    \/ \E fa \in FromAmounts, addr \in {NoAddress, AccountAddr} : HandleSwap(fa, addr)
    \/ ApproveResponse
    \/ PollRead
    \/ PollWait
    \/ SwapFetch
    \/ SwapResponse
    \/ PostJson
    \/ PostAccount
    \/ SingleSend
    \/ \E h \in 1..Len(userOps) : Mine(h)
    \/ \E v \in 0..MaxAmount : ChainOther(v)

ClientSpec == Init /\ [][ClientNext]_vars

\* the page is loaded again: the component state is the initial one, and
\* the user operations of the last run are no longer followed
PageReload ==
    /\ cpc = "done"
    /\ pc = "idle"
    /\ cpc' = "idle"
    /\ fromAmount' = ""
    /\ accountAddress' = NoAddress
    /\ isSwapping' = FALSE
    /\ swapStatus' = "null"
    /\ amountBigInt' = 0
    /\ posted' = <<>>
    /\ i' = 0
    /\ pollReads' = 0
    /\ pollBelow' = 0
    /\ pollLast' = Rejected
    /\ pollResult' = "none"
    /\ approveRes' = NoRes
    /\ swapRes' = NoRes
    /\ req' = NoReq
    /\ events' = <<>>
    /\ responses' = <<>>
    /\ userOps' = <<>>
    /\ UNCHANGED <<env, allowance, pc>>

\* the endpoint serving both the swap page and other callers; the other
\* callers' requests are observed while the page is freshly loaded
FullNext ==
    \/ (cpc = "idle" /\ fromAmount = "" /\ accountAddress = NoAddress /\ Next)
    \/ ClientNext
    \/ PageReload

FullSpec == Init /\ [][FullNext]_vars

\* ------------------------------------------------------- observations
IsPost == req.method = "POST"
HasCalls == IsPost /\ req.body.kind = "calls"
TwoCallReq == HasCalls /\ Len(req.body.calls) = 2
OtherCountReq == HasCalls /\ Len(req.body.calls) # 2
ConfigMissing == ~env.privateKey \/ ~env.ZERODEV_RPC

EventsOf(kind) == {k \in 1..Len(events) : events[k].kind = kind}
SubmitsOf(what) == {k \in EventsOf("submit") : events[k].what = what}
Submitted == {k \in EventsOf("submit") : events[k].ok}
Failed == {k \in 1..Len(events) : ~events[k].ok}
Kinds == [k \in 1..Len(events) |-> events[k].kind]
ReadZero == \E k \in EventsOf("read") : events[k].ok /\ events[k].val = 0
ReadNonZero == \E k \in EventsOf("read") : events[k].ok /\ events[k].val # 0
IsError(r, st) == r.status = st /\ r.key = "error"

\* ------------------------------------------------------------- claims

\* C1 (endpoint part): in the two-call path of POST, a swap call[1] is
\* submitted only after the allowance read of the request returned a value
\* greater than or equal to the swap's amount.
C1_EndpointSwapAfterAllowance ==
    TwoCallReq =>
      \A k \in SubmitsOf("call1") :
        (events[k].ok /\ req.body.calls[2].fn = "swapAToB") =>
          \E j \in EventsOf("read") :
            /\ j < k
            /\ events[j].ok
            /\ events[j].val >= req.body.calls[2].amount

\* C1 (client part): handleSwap posts the swap call only after
\* pollForAllowance read an allowance greater than or equal to the amount.
C1_ClientSwapAfterAllowance ==
    \A k \in 1..Len(posted) :
      posted[k].fn = "swapAToB" =>
        /\ pollResult = "true"
        /\ pollLast >= posted[k].amount

\* C1: in every execution of the POST handler and of handleSwap, a swap
\* call is submitted as a user operation only after an allowance read for
\* the same (token, owner, spender) returned a value greater than or equal
\* to the intended transfer amount.
C1_SwapOnlyAfterSufficientAllowance ==
    C1_EndpointSwapAfterAllowance /\ C1_ClientSwapAfterAllowance

\* C2: for a POST with exactly 2 calls, if the allowance read after call[0]
\* returns zero, call[1] is never submitted: exactly one user operation
\* (call[0]) is submitted and the response is {error: "Allowance not
\* updated"} with status 400.
C2_ZeroAllowanceStopsBatch ==
    (TwoCallReq /\ ReadZero) =>
      /\ SubmitsOf("call1") = {}
      /\ Cardinality(Submitted) = 1
      /\ Submitted = SubmitsOf("call0")
      /\ Len(userOps) = 1
      /\ userOps[1].calls = <<req.body.calls[1]>>
      /\ pc = "responded"
      /\ responses = <<JsonError("Allowance not updated", 400)>>

C2_Witness ==
    /\ TwoCallReq /\ ReadZero
    /\ pc = "responded"
    /\ req.body.calls[2].fn = "swapAToB"

\* C3: for a POST with exactly 2 calls where every external step succeeds
\* and the allowance read is non-zero, the events occur in the order:
\* call[0] submitted, call[0] receipt obtained, settle delay elapsed,
\* allowance read, call[1] submitted; exactly two user operations are
\* submitted, [call0, call1], and the response is {userOpHash} carrying the
\* hash of call[1]'s operation.
C3_TwoCallOrder ==
    (TwoCallReq /\ pc = "responded" /\ Failed = {} /\ ReadNonZero) =>
      /\ Kinds = <<"account", "submit", "receipt", "settle", "read", "submit">>
      /\ events[2].what = "call0"
      /\ events[3].val = events[2].val
      /\ Mined(events[2].val)
      /\ events[4].val = SettleDelayMs
      /\ events[6].what = "call1"
      /\ events[6].val # events[2].val
      /\ Len(userOps) = 2
      /\ userOps[events[2].val].calls = <<req.body.calls[1]>>
      /\ userOps[events[6].val].calls = <<req.body.calls[2]>>
      /\ responses = <<JsonHash(events[6].val)>>

C3_Witness ==
    /\ TwoCallReq /\ pc = "responded" /\ Failed = {} /\ ReadNonZero
    /\ req.body.calls = <<ApproveCall(2), SwapCall(2)>>
    /\ \E k \in EventsOf("read") : events[k].val = 2

C5_MissingConfigNoNetwork ==
    (ConfigMissing /\ req.method \in {"GET", "POST"}) =>
      /\ events = <<>>
      /\ userOps = <<>>
      /\ pc = "responded"
      /\ Len(responses) = 1
      /\ IsError(responses[1], 500)

C5_Witness ==
    /\ env.privateKey /\ ~env.ZERODEV_RPC
    /\ TwoCallReq
    /\ pc = "responded"

\* C6: pollForAllowance terminates after at most 20 allowance reads: it
\* returns true at the first read whose value is >= the expected amount
\* (no further read follows), and returns false exactly when all 20 reads
\* are below the expected amount.
C6_PollBounded ==
    /\ pollReads <= 20
    /\ pollBelow <= pollReads
    /\ cpc \in {"poll", "poll_wait"} =>
         /\ pollResult = "none"
         /\ pollBelow = pollReads
         /\ i < 20
         /\ pollReads = IF cpc = "poll" THEN i ELSE i + 1
    /\ pollResult = "true" =>
         /\ pollLast >= amountBigInt
         /\ pollReads = pollBelow + 1
    /\ pollResult = "false" => i = 20
    /\ pollResult # "none" =>
         (pollResult = "false" <=> (pollReads = 20 /\ pollBelow = 20))

C6_Witness ==
    /\ pollResult = "false"
    /\ pollReads = 20
    /\ amountBigInt = 2

\* C7: in handleSwap, if the allowance poll exhausts its attempt budget
\* without observing allowance >= the intended amount, the swap call is
\* never posted to the endpoint in that run and the run ends in the error
\* status.
C7_PollExhaustedNoSwap ==
    pollResult = "false" =>
      /\ posted = <<ApproveCall(amountBigInt)>>
      /\ \A h \in 1..Len(userOps) : userOps[h].calls = <<ApproveCall(amountBigInt)>>
      /\ swapRes = NoRes
      /\ cpc = "done"
      /\ swapStatus = "error"

C7_Witness ==
    /\ pollResult = "false"
    /\ pollBelow = 20
    /\ swapStatus = "error"

\* C8: for a POST with exactly 2 calls, if the submission of call[0] fails
\* or its confirmation fails, the request aborts with a status 500 error
\* and call[1] is never submitted.
C8_ApproveFailureAborts ==
    (TwoCallReq /\ \E k \in 1..Len(events) :
                     events[k].what = "call0" /\ ~events[k].ok) =>
      /\ pc = "responded"
      /\ Len(responses) = 1
      /\ IsError(responses[1], 500)
      /\ EventsOf("submit") = SubmitsOf("call0")
      /\ Len(userOps) <= 1

C8_Witness ==
    /\ TwoCallReq
    /\ pc = "responded"
    /\ \E k \in EventsOf("receipt") : ~events[k].ok

\* C9: in the client flow, each single-call POST gets its response only
\* after the submitted user operation has been mined: the client polls the
\* allowance only after the approve operation is mined, and sets the
\* success status only after the swap operation is mined.
C9_ResponseOnlyAfterMined ==
    /\ ResOk(approveRes) => Mined(approveRes.hash)
    /\ cpc \in {"poll", "poll_wait"} => Mined(approveRes.hash)
    /\ ResOk(swapRes) => Mined(swapRes.hash)
    /\ swapStatus = "success" => Mined(swapRes.hash)

\* C10: every POST request ends in exactly one structured response and no
\* exception escapes the handler: {userOpHash} on success, {error} with
\* status 400 exactly when the 2-call allowance read returned zero, {error}
\* with status 500 for every other failure.
C10_OneStructuredResponse ==
    IsPost =>
      /\ pc # "crashed"
      /\ Len(responses) <= 1
      /\ pc = "responded" <=> Len(responses) = 1
      /\ pc = "responded" =>
           LET r == responses[1] IN
           /\ r.status \in {200, 400, 500}
           /\ r.status = 200 => r.key = "userOpHash"
           /\ r.status # 200 => r.key = "error"
           /\ r.status = 200 <=>
                /\ HasCalls /\ ~ConfigMissing /\ Failed = {} /\ ~ReadZero
                /\ events # <<>>
                /\ events[Len(events)].kind = "submit"
                /\ events[Len(events)].what \in {"call1", "all"}
                /\ events[Len(events)].val = r.hash
           /\ r.status = 400 <=> (TwoCallReq /\ ~ConfigMissing /\ ReadZero)
           /\ r.status = 500 <=> (ConfigMissing \/ ~HasCalls \/ Failed # {})

C10_Witness ==
    /\ IsPost /\ pc = "responded"
    /\ req.body.kind = "nocalls"
    /\ events # <<>>
    /\ Failed = {}

\* C11: handleSwap sets the success status only if the approve round trip
\* returned an ok response, the allowance poll returned true, and the swap
\* round trip returned an ok response, in that order; a failure or
\* exception at any of these steps yields the error status and skips all
\* later steps (a failed approve round trip means no poll and no swap post).
C11_SuccessOnlyAfterAllSteps ==
    /\ swapStatus = "success" =>
         /\ ResOk(approveRes)
         /\ pollResult = "true"
         /\ ResOk(swapRes)
         /\ posted = <<ApproveCall(amountBigInt), SwapCall(amountBigInt)>>
    \* the order of the steps
    /\ (pollReads > 0 \/ cpc \in {"poll", "poll_wait"}) => ResOk(approveRes)
    /\ Len(posted) = 2 => (ResOk(approveRes) /\ pollResult = "true")
    /\ swapRes # NoRes => Len(posted) = 2
    \* a failed step ends the run with the error status, later steps skipped
    /\ (approveRes # NoRes /\ ~ResOk(approveRes)) =>
         /\ swapStatus = "error" /\ cpc = "done"
         /\ pollReads = 0 /\ pollResult = "none"
         /\ posted = <<ApproveCall(amountBigInt)>>
         /\ swapRes = NoRes
    /\ pollResult \in {"false", "throw"} =>
         /\ swapStatus = "error" /\ cpc = "done"
         /\ posted = <<ApproveCall(amountBigInt)>>
         /\ swapRes = NoRes
    /\ (swapRes # NoRes /\ ~ResOk(swapRes)) =>
         (swapStatus = "error" /\ cpc = "done")
    /\ (cpc = "done" /\ ~ResOk(swapRes)) => swapStatus = "error"

C11_Witness ==
    /\ swapStatus = "success"
    /\ cpc = "done"
    /\ pollBelow > 0
    /\ amountBigInt = 2

\* C12: no submission is retried or compensated: within one POST request
\* each call of the batch is submitted at most once and nothing is
\* submitted after a failed submission (a failed swap submission in the
\* 2-call path yields a status 500 response with the approve operation
\* already submitted and no revoking operation), and within one handleSwap
\* run the approve call and the swap call are each posted at most once.
C12_NoRetryNoCompensation ==
    /\ IsPost =>
         /\ \A what \in {"call0", "call1", "all"} :
              Cardinality(SubmitsOf(what)) <= 1
         /\ SubmitsOf("all") # {} => EventsOf("submit") = SubmitsOf("all")
         /\ \A k \in EventsOf("submit") :
              ~events[k].ok =>
                /\ k = Len(events)
                /\ pc \in {"responded", "idle"}
                /\ Len(responses) = 1
                /\ IsError(responses[1], 500)
         /\ (TwoCallReq /\ \E k \in SubmitsOf("call1") : ~events[k].ok) =>
              /\ Len(userOps) = 1
              /\ userOps[1].calls = <<req.body.calls[1]>>
              /\ Submitted = SubmitsOf("call0")
         /\ req.origin = "direct" => Len(userOps) = Cardinality(Submitted)
    /\ Len(posted) <= 2
    /\ \A k \in 1..Len(posted) :
         posted[k] = IF k = 1 THEN ApproveCall(amountBigInt)
                              ELSE SwapCall(amountBigInt)
    /\ cpc # "idle" => Len(userOps) <= Len(posted)
    /\ \A h \in 1..Len(userOps) :
         cpc # "idle" => userOps[h].calls = <<posted[h]>>

C12_Witness ==
    /\ TwoCallReq
    /\ pc = "responded"
    /\ \E k \in SubmitsOf("call1") : ~events[k].ok
    /\ req.body.calls = <<ApproveCall(2), SwapCall(2)>>
    /\ userOps[1].status = "mined"

\* the states of a handleSwap run: pending only while isSwapping, and a
\* completed run leaves isSwapping false and the status success or error
SwapStateConsistent ==
    /\ swapStatus = "pending" => isSwapping
    /\ isSwapping <=> cpc \in {"approve_wait", "poll", "poll_wait",
                               "swap_fetch", "swap_wait"}
    /\ cpc = "done" =>
         /\ ~isSwapping
         /\ swapStatus \in {"success", "error"}

\* a step that leaves the amount field empty or the smart-account address
\* absent is handleSwap's early return (or a step of the chain)
EarlyReturnChangesNothing ==
    (fromAmount' = "" \/ accountAddress' = NoAddress) =>
      /\ isSwapping' = isSwapping
      /\ swapStatus' = swapStatus
      /\ posted' = posted
      /\ cpc' = cpc
      /\ UNCHANGED <<req, pc, events, responses>>
      /\ Len(userOps') = Len(userOps)

\* C13: the client's swap state is consistent across any handleSwap run:
\* the status is 'pending' only while isSwapping is true; every run that
\* completes (by success or by any failure) leaves isSwapping false and the
\* status in {success, error}, never 'pending'; and a handleSwap invoked
\* with an empty amount or no smart-account address posts nothing and
\* leaves isSwapping and the status unchanged.
C13_SwapStateConsistent ==
    /\ []SwapStateConsistent
    /\ [][EarlyReturnChangesNothing]_vars

C13_Witness ==
    /\ cpc = "done"
    /\ swapStatus = "success"
    /\ ~isSwapping
    /\ fromAmount = ""
    /\ accountAddress = AccountAddr

=============================================================================
